---- MODULE Spec2Model ----
(***************************************************************************)
(* Patch synthesis and sanitization pipeline of main.py: code extraction,  *)
(* fence cleaning, docstring stripping over a unified diff, header         *)
(* rewriting and JSONL packaging.                                          *)
(*                                                                         *)
(* Text is a sequence of atoms.  An atom is a one-character string (quote  *)
(* characters, blanks, '+', '-', '@', the line terminator) or a word that  *)
(* no operation of the program ever splits.  The text an atom sequence     *)
(* stands for is the concatenation of its atoms.                           *)
(***************************************************************************)
EXTENDS Integers, Sequences, FiniteSets, TLC

VARIABLES pc, patch_file, lines, idx, modified_lines,
          in_multiline_docstring, docstring_quotes, scan_log, strip_result,
          strip_pass, responses, original_file, original_text, code_generator_output,
          code_block, cleaned_code, output_py, debug_file, diff_result,
          modify_lines, modify_result, jsonl_file

strip_vars == <<lines, idx, modified_lines, in_multiline_docstring,
                docstring_quotes, scan_log, strip_result, strip_pass>>

main_vars == <<responses, original_file, original_text, code_generator_output,
               code_block, cleaned_code, output_py, debug_file, diff_result,
               modify_lines, modify_result, jsonl_file>>

vars == <<pc, patch_file, strip_vars, main_vars>>

\* ------------------------------------------------------------------ bounds
MaxLines == 3
MaxPasses == 2

MaxResponses == 2

\* ------------------------------------------------------------ text helpers
\* Python's None for docstring_quotes: the empty text, falsy like None
None == <<>>

\* a file of the results directory: absent, or present with its lines
NoFile == [exists |-> FALSE, content |-> <<>>]

File(content) == [exists |-> TRUE, content |-> content]

DQ == "\""
SQ == "'"
Q3 == <<DQ, DQ, DQ>>
S3 == <<SQ, SQ, SQ>>
NL == <<"\n">>
IND == <<" ", " ", " ", " ">>

IsSpace(a) == a \in {" ", "\t", "\n"}

StartsWith(s, p) == Len(s) >= Len(p) /\ SubSeq(s, 1, Len(p)) = p

EndsWith(s, p) == Len(s) >= Len(p) /\ SubSeq(s, Len(s) - Len(p) + 1, Len(s)) = p

Contains(s, p) == \E k \in 1..(Len(s) - Len(p) + 1) : SubSeq(s, k, k + Len(p) - 1) = p

Drop(s, n) == SubSeq(s, n + 1, Len(s))

RECURSIVE LStrip(_)
LStrip(s) == IF s # <<>> /\ IsSpace(Head(s)) THEN LStrip(Tail(s)) ELSE s

RECURSIVE StrLen(_)
StrLen(s) == IF s = <<>> THEN 0 ELSE Len(Head(s)) + StrLen(Tail(s))

\* ------------------------------------------------------------- diff lines
AddOpenDQ     == <<"+">> \o IND \o Q3 \o NL
AddText       == <<"+">> \o IND \o <<"Multi-line.">> \o NL
AddSingleDQ   == <<"+">> \o IND \o Q3 \o <<"This is a docstring.">> \o Q3
AddSingleDQNL == AddSingleDQ \o NL
AddLiteral    == <<"+">> \o IND \o <<"x = ", SQ>> \o Q3 \o <<"not a docstring">> \o Q3 \o <<SQ>> \o NL
AddOpenSQ     == <<"+">> \o IND \o S3 \o NL
AddSingleSQ   == <<"+">> \o IND \o S3 \o <<"doc">> \o S3
AddFiveDQ     == <<"+">> \o Q3 \o <<DQ, DQ>>
AddFiveDQNL   == AddFiveDQ \o NL
AddBlank      == <<"+">> \o NL
HdrNew        == <<"+", "+", "+", " ", "b/f.py">> \o NL
HdrOld        == <<"-", "-", "-", " ", "a/f.py">> \o NL
HunkMark      == <<"@", "@", " ", "-1,2 +1,3", " ", "@", "@">> \o NL
CtxDef        == <<" ", "def f():">> \o NL
DelReturn     == <<"-">> \o IND \o <<"return 1">> \o NL
CtxCloseDQ    == <<" ">> \o IND \o Q3 \o NL
DelCloseSQ    == <<"-">> \o IND \o S3 \o NL

LineSet == {AddOpenDQ, AddText, AddSingleDQ, AddSingleDQNL, AddLiteral,
            AddOpenSQ, AddSingleSQ, AddFiveDQ, AddFiveDQNL, AddBlank, HdrNew,
            HdrOld,
            HunkMark, CtxDef, DelReturn, CtxCloseDQ, DelCloseSQ}

SeqsUpTo(S, n) == UNION {[1..k -> S] : k \in 0..n}

\* what readlines() can return: every line but the last ends with "\n"
IsReadlines(d) == \A k \in 1..(Len(d) - 1) : EndsWith(d[k], NL)

Diffs == {d \in SeqsUpTo(LineSet, MaxLines) : IsReadlines(d)}

\* ----------------------------------------------------------- more text ops
RECURSIVE RStrip(_)
RStrip(s) == IF s # <<>> /\ IsSpace(s[Len(s)]) THEN RStrip(SubSeq(s, 1, Len(s) - 1)) ELSE s

Strip(s) == RStrip(LStrip(s))

Min(S) == CHOOSE x \in S : \A y \in S : x <= y

\* index of the first occurrence of p in s at or after position from, 0 if none
IndexOf(s, p, from) ==
    LET ks == {k \in from..(Len(s) - Len(p) + 1) : SubSeq(s, k, k + Len(p) - 1) = p}
    IN  IF ks = {} THEN 0 ELSE Min(ks)

RECURSIVE Flatten(_)
Flatten(ls) == IF ls = <<>> THEN <<>> ELSE Head(ls) \o Flatten(Tail(ls))

\* readlines(): cut the text after every line terminator
RECURSIVE ReadLines(_)
ReadLines(text) ==
    IF text = <<>> THEN <<>>
    ELSE LET n == IndexOf(text, NL, 1)
         IN  IF n = 0 THEN <<text>>
             ELSE <<SubSeq(text, 1, n)>> \o ReadLines(Drop(text, n))

\* ---------------------------------------------- extract_code_generator_output
\* the grave accent character of a markdown fence (the character itself cannot
\* be written in a string of this language)
BT == "<grave>"
Fence == <<BT, BT, BT>>
FencePython == <<BT, BT, BT, "python">>
GeneratorTag == <<"[code_generator_agent]", ":">>
AnalyserTag == <<"[code_analyser_agent]", ":">>

\* run_agent: the entry appended for one event
Response(author_tag, response_text) == author_tag \o <<" ">> \o response_text

\* the value returned for the first response carrying the generator tag;
\* split(...)[1] raises IndexError when the tag is not followed by a blank
OutputOfResponse(response) ==
    LET n == IndexOf(response, GeneratorTag \o <<" ">>, 1)
    IN  IF n = 0 THEN [raised |-> TRUE, output |-> <<>>]
        ELSE [raised |-> FALSE, output |-> Strip(Drop(response, n + 2))]

RECURSIVE ExtractCodeGeneratorOutput(_)
ExtractCodeGeneratorOutput(rs) ==
    IF rs = <<>> THEN [raised |-> FALSE, output |-> <<>>]
    ELSE IF Contains(Head(rs), GeneratorTag) THEN OutputOfResponse(Head(rs))
    ELSE ExtractCodeGeneratorOutput(Tail(rs))

\* --------------------------------------------------- extract_code_from_output
\* re.search(opener + "(.*?)" + fence, output, re.DOTALL): the leftmost opener
\* that has a fence after it, and the text up to the first such fence
SearchFenced(output, opener) ==
    LET i == IndexOf(output, opener, 1)
        j == IF i = 0 THEN 0 ELSE IndexOf(output, Fence, i + Len(opener))
    IN  IF j = 0 THEN [found |-> FALSE, group |-> <<>>]
        ELSE [found |-> TRUE, group |-> SubSeq(output, i + Len(opener), j - 1)]

StartsLikeCode(output) ==
    \/ StartsWith(Strip(output), <<"class">>)
    \/ StartsWith(Strip(output), <<"def">>)
    \/ StartsWith(Strip(output), <<"import">>)
    \/ StartsWith(Strip(output), Q3)

ExtractCodeFromOutput(output) ==
    IF SearchFenced(output, FencePython \o NL).found
    THEN SearchFenced(output, FencePython \o NL).group
    ELSE IF SearchFenced(output, Fence \o NL).found
    THEN SearchFenced(output, Fence \o NL).group
    ELSE IF StartsLikeCode(output)
    THEN output
    ELSE output

\* ---------------------------------------------------------- clean_code_output
CleanCodeOutput(code) ==
    LET c1 == IF StartsWith(code, FencePython)
              THEN LStrip(Drop(code, Len(FencePython))) ELSE code
        c2 == IF StartsWith(c1, Fence) THEN LStrip(Drop(c1, Len(Fence))) ELSE c1
    IN  IF EndsWith(c2, Fence) THEN RStrip(SubSeq(c2, 1, Len(c2) - Len(Fence))) ELSE c2

\* -------------------------------------------------------- generate_diff_patch
\* difflib.SequenceMatcher on texts short enough that no line is "popular";
\* positions are 0-based and ranges half-open, as in difflib
RECURSIVE MatchLen(_, _, _, _, _, _)
MatchLen(a, b, i, j, ahi, bhi) ==
    IF i < ahi /\ j < bhi /\ a[i + 1] = b[j + 1]
    THEN 1 + MatchLen(a, b, i + 1, j + 1, ahi, bhi) ELSE 0

Max(S) == CHOOSE x \in S : \A y \in S : x >= y

\* find_longest_match: longest block, then earliest in a, then earliest in b
FindLongestMatch(a, b, alo, ahi, blo, bhi) ==
    LET cand == (alo..(ahi - 1)) \X (blo..(bhi - 1))
        len == [c \in cand |-> MatchLen(a, b, c[1], c[2], ahi, bhi)]
        best == Max({len[c] : c \in cand} \cup {0})
        i == Min({c[1] : c \in {x \in cand : len[x] = best}})
        j == Min({c[2] : c \in {x \in cand : x[1] = i /\ len[x] = best}})
    IN  IF best = 0 THEN <<alo, blo, 0>> ELSE <<i, j, best>>

RECURSIVE MatchingBlocks(_, _, _, _, _, _)
MatchingBlocks(a, b, alo, ahi, blo, bhi) ==
    LET m == FindLongestMatch(a, b, alo, ahi, blo, bhi)
    IN  IF m[3] = 0 THEN <<>>
        ELSE MatchingBlocks(a, b, alo, m[1], blo, m[2])
             \o <<m>>
             \o MatchingBlocks(a, b, m[1] + m[3], ahi, m[2] + m[3], bhi)

\* get_opcodes: walk the matching blocks, the (len a, len b, 0) sentinel last
RECURSIVE OpcodesFrom(_, _, _)
OpcodesFrom(blocks, i, j) ==
    IF blocks = <<>> THEN <<>>
    ELSE LET m == Head(blocks)
             tag == IF i < m[1] /\ j < m[2] THEN "replace"
                    ELSE IF i < m[1] THEN "delete"
                    ELSE IF j < m[2] THEN "insert" ELSE ""
             change == IF tag = "" THEN <<>> ELSE << <<tag, i, m[1], j, m[2]>> >>
             equal == IF m[3] > 0
                      THEN << <<"equal", m[1], m[1] + m[3], m[2], m[2] + m[3]>> >>
                      ELSE <<>>
         IN  change \o equal \o OpcodesFrom(Tail(blocks), m[1] + m[3], m[2] + m[3])

GetOpcodes(a, b) ==
    OpcodesFrom(MatchingBlocks(a, b, 0, Len(a), 0, Len(b)) \o << <<Len(a), Len(b), 0>> >>, 0, 0)

ContextLines == 3

MaxOf(x, y) == IF x >= y THEN x ELSE y

MinOf(x, y) == IF x <= y THEN x ELSE y

\* get_grouped_opcodes: the leading equal run keeps its last 3 lines
TrimFirst(codes) ==
    IF Head(codes)[1] = "equal"
    THEN << <<"equal", MaxOf(Head(codes)[2], Head(codes)[3] - ContextLines), Head(codes)[3],
              MaxOf(Head(codes)[4], Head(codes)[5] - ContextLines), Head(codes)[5]>> >>
         \o Tail(codes)
    ELSE codes

\* get_grouped_opcodes: the trailing equal run keeps its first 3 lines
TrimLast(codes) ==
    IF codes[Len(codes)][1] = "equal"
    THEN SubSeq(codes, 1, Len(codes) - 1)
         \o << <<"equal", codes[Len(codes)][2],
                 MinOf(codes[Len(codes)][3], codes[Len(codes)][2] + ContextLines),
                 codes[Len(codes)][4],
                 MinOf(codes[Len(codes)][5], codes[Len(codes)][4] + ContextLines)>> >>
    ELSE codes

\* get_grouped_opcodes: a group of one equal run is not reported
GroupsOf(codes) ==
    IF Len(codes) = 1 /\ codes[1][1] = "equal" THEN <<>> ELSE <<codes>>

OrOneEqual(codes) == IF codes = <<>> THEN << <<"equal", 0, 1, 0, 1>> >> ELSE codes

\* get_grouped_opcodes(3) for texts of at most 2 * 3 lines, where no inner
\* equal run is long enough to split the group
GroupedOpcodes(a, b) == GroupsOf(TrimLast(TrimFirst(OrOneEqual(GetOpcodes(a, b)))))

\* decimal text of a small line number
Digits(n) == <<"0", "1", "2", "3", "4", "5", "6", "7", "8", "9">>[n + 1]

\* _format_range_unified
FormatRange(start, stop) ==
    IF stop - start = 1 THEN <<Digits(start + 1)>>
    ELSE IF stop - start = 0 THEN <<Digits(start), ",", Digits(0)>>
    ELSE <<Digits(start + 1), ",", Digits(stop - start)>>

Prefixed(c, ls) == [k \in 1..Len(ls) |-> <<c>> \o ls[k]]

RECURSIVE HunkBody(_, _, _)
HunkBody(group, a, b) ==
    IF group = <<>> THEN <<>>
    ELSE LET op == Head(group)
             here == IF op[1] = "equal"
                     THEN Prefixed(" ", SubSeq(a, op[2] + 1, op[3]))
                     ELSE (IF op[1] \in {"replace", "delete"}
                           THEN Prefixed("-", SubSeq(a, op[2] + 1, op[3])) ELSE <<>>)
                          \o (IF op[1] \in {"replace", "insert"}
                              THEN Prefixed("+", SubSeq(b, op[4] + 1, op[5])) ELSE <<>>)
         IN  here \o HunkBody(Tail(group), a, b)

\* difflib.unified_diff(a, b, fromfile, tofile, n=3) as a list of lines
UnifiedDiff(a, b, fromfile, tofile) ==
    LET groups == GroupedOpcodes(a, b)
        group == groups[1]
        first == group[1]
        last == group[Len(group)]
    IN  IF groups = <<>> THEN <<>>
        ELSE << <<"-", "-", "-", " ">> \o fromfile \o NL,
                <<"+", "+", "+", " ">> \o tofile \o NL,
                <<"@", "@", " ", "-">> \o FormatRange(first[2], last[3])
                    \o <<" ", "+">> \o FormatRange(first[4], last[5])
                    \o <<" ", "@", "@">> \o NL >>
             \o HunkBody(group, a, b)

\* ------------------------------------------- remove_docstrings_from_patch
IsAddition_AnyChange(line_content) ==
    StartsWith(line_content, <<"+">>) \/ StartsWith(line_content, <<"-">>)

IsAddition(line_content) == StartsWith(line_content, <<"+">>)

InsideStep_AnyQuote(quotes, added_text) ==
    IF quotes # None /\ (Contains(added_text, Q3) \/ Contains(added_text, S3))
    THEN [doc |-> TRUE, in |-> FALSE, quotes |-> None]
    ELSE [doc |-> TRUE, in |-> TRUE, quotes |-> quotes]

InsideStep_KeepQuotes(quotes, added_text) ==
    IF quotes # None /\ Contains(added_text, quotes)
    THEN [doc |-> TRUE, in |-> FALSE, quotes |-> quotes]
    ELSE [doc |-> TRUE, in |-> TRUE, quotes |-> quotes]

InsideStep_KeepClosing(quotes, added_text) ==
    IF quotes # None /\ Contains(added_text, quotes)
    THEN [doc |-> FALSE, in |-> FALSE, quotes |-> None]
    ELSE [doc |-> TRUE, in |-> TRUE, quotes |-> quotes]

\* the branch taken while in_multiline_docstring is true
InsideStep(quotes, added_text) ==
    IF quotes # None /\ Contains(added_text, quotes)
    THEN [doc |-> TRUE, in |-> FALSE, quotes |-> None]
    ELSE [doc |-> TRUE, in |-> TRUE, quotes |-> quotes]

OpenWith_NoRecheck(d, stripped_added_text) ==
    [doc |-> TRUE, in |-> TRUE, quotes |-> d]

\* an opening delimiter d at the start of the trimmed text
OpenWith(d, stripped_added_text) ==
    IF Contains(Drop(stripped_added_text, Len(d)), d)
    THEN [doc |-> TRUE, in |-> FALSE, quotes |-> None]
    ELSE [doc |-> TRUE, in |-> TRUE, quotes |-> d]

OutsideStep_Anywhere(stripped_added_text) ==
    IF Contains(stripped_added_text, Q3)
    THEN OpenWith(Q3, stripped_added_text)
    ELSE IF Contains(stripped_added_text, S3)
    THEN OpenWith(S3, stripped_added_text)
    ELSE [doc |-> FALSE, in |-> FALSE, quotes |-> None]

\* the branch taken while in_multiline_docstring is false
OutsideStep(stripped_added_text) ==
    IF /\ StartsWith(stripped_added_text, Q3)
       /\ EndsWith(stripped_added_text, Q3)
       /\ StrLen(stripped_added_text) >= 6
    THEN [doc |-> TRUE, in |-> FALSE, quotes |-> None]
    ELSE IF /\ StartsWith(stripped_added_text, S3)
            /\ EndsWith(stripped_added_text, S3)
            /\ StrLen(stripped_added_text) >= 6
    THEN [doc |-> TRUE, in |-> FALSE, quotes |-> None]
    ELSE IF StartsWith(stripped_added_text, Q3)
    THEN OpenWith(Q3, stripped_added_text)
    ELSE IF StartsWith(stripped_added_text, S3)
    THEN OpenWith(S3, stripped_added_text)
    ELSE [doc |-> FALSE, in |-> FALSE, quotes |-> None]

ProcessLine_CloseOnAnyLine(in, quotes, line_content) ==
    IF IsAddition(line_content)
    THEN LET added_text == Drop(line_content, 1)
             r == IF in THEN InsideStep(quotes, added_text)
                        ELSE OutsideStep(LStrip(added_text))
         IN  [keep |-> ~r.doc, in |-> r.in, quotes |-> r.quotes]
    ELSE IF in /\ Contains(line_content, quotes)
         THEN [keep |-> TRUE, in |-> FALSE, quotes |-> None]
         ELSE [keep |-> TRUE, in |-> in, quotes |-> quotes]

\* one iteration of the loop over the lines of the patch
ProcessLine(in, quotes, line_content) ==
    IF IsAddition(line_content)
    THEN LET added_text == Drop(line_content, 1)
             r == IF in THEN InsideStep(quotes, added_text)
                        ELSE OutsideStep(LStrip(added_text))
         IN  [keep |-> ~r.doc, in |-> r.in, quotes |-> r.quotes]
    ELSE [keep |-> TRUE, in |-> in, quotes |-> quotes]

\* FileNotFoundError is answered with False; any other error of open or
\* readlines leaves the function as an exception
StripRead ==
    /\ pc = "strip_read"
    /\ \/ /\ ~patch_file.exists
          /\ pc' = "strip_done"
          /\ strip_result' = "False"
          /\ UNCHANGED <<lines, idx, modified_lines, in_multiline_docstring,
                         docstring_quotes, scan_log>>
       \/ /\ patch_file.exists
          /\ pc' = "strip_loop"
          /\ lines' = ReadLines(patch_file.content)
          /\ idx' = 1
          /\ modified_lines' = <<>>
          /\ in_multiline_docstring' = FALSE
          /\ docstring_quotes' = None
          /\ scan_log' = <<>>
          /\ UNCHANGED strip_result
       \/ /\ patch_file.exists
          /\ pc' = "strip_raised"
          /\ UNCHANGED strip_vars
    /\ UNCHANGED <<patch_file, strip_pass, main_vars>>

StripLoop ==
    /\ pc = "strip_loop"
    /\ idx <= Len(lines)
    /\ LET r == ProcessLine(in_multiline_docstring, docstring_quotes, lines[idx])
       IN  /\ in_multiline_docstring' = r.in
           /\ docstring_quotes' = r.quotes
           /\ modified_lines' = IF r.keep THEN Append(modified_lines, lines[idx])
                                          ELSE modified_lines
           /\ scan_log' = Append(scan_log,
                                 [in_before |-> in_multiline_docstring,
                                  quotes_before |-> docstring_quotes,
                                  keep |-> r.keep])
    /\ idx' = idx + 1
    /\ UNCHANGED <<pc, patch_file, lines, strip_result, strip_pass, main_vars>>

\* open(path, "w") truncates the file before writelines runs: a failing write
\* leaves some prefix of the text written so far, a failing open leaves the
\* file as it was
StripWrite ==
    /\ pc = "strip_loop"
    /\ idx > Len(lines)
    /\ \/ /\ patch_file' = File(Flatten(modified_lines))
          /\ strip_result' = "True"
       \/ /\ \E n \in 0..Len(modified_lines) : patch_file' = File(Flatten(SubSeq(modified_lines, 1, n)))
          /\ strip_result' = "False"
       \/ /\ UNCHANGED patch_file
          /\ strip_result' = "False"
    /\ pc' = "strip_done"
    /\ UNCHANGED <<lines, idx, modified_lines, in_multiline_docstring,
                   docstring_quotes, scan_log, strip_pass, main_vars>>

\* the locals of main before run_agent has returned
MainIdle ==
    /\ responses = <<>>
    /\ original_file = <<>>
    /\ original_text = <<>>
    /\ code_generator_output = <<>>
    /\ code_block = <<>>
    /\ cleaned_code = <<>>
    /\ output_py = NoFile
    /\ debug_file = NoFile
    /\ diff_result = "None"
    /\ modify_lines = <<>>
    /\ modify_result = "None"
    /\ jsonl_file = NoFile

\* remove_docstrings_from_patch called on any patch file
InitStrip ==
    /\ pc = "strip_read"
    /\ patch_file \in {File(Flatten(d)) : d \in Diffs} \cup {NoFile}
    /\ lines = <<>>
    /\ idx = 1
    /\ modified_lines = <<>>
    /\ in_multiline_docstring = FALSE
    /\ docstring_quotes = None
    /\ scan_log = <<>>
    /\ strip_result = "None"
    /\ strip_pass = 1
    /\ MainIdle

NextStrip == StripRead \/ StripLoop \/ StripWrite

SpecStrip == InitStrip /\ [][NextStrip]_vars

\* remove_docstrings_from_patch called once more on the file it has rewritten
StripAgain ==
    /\ pc = "strip_done"
    /\ strip_result = "True"
    /\ strip_pass < MaxPasses
    /\ pc' = "strip_read"
    /\ strip_result' = "None"
    /\ strip_pass' = strip_pass + 1
    /\ UNCHANGED <<patch_file, lines, idx, modified_lines, in_multiline_docstring,
                   docstring_quotes, scan_log, main_vars>>

NextStripTwice == NextStrip \/ StripAgain

SpecStripTwice == InitStrip /\ [][NextStripTwice]_vars

\* ---------------------------------------------------------- modify_patch_file
WidgetsPath == "django/forms/widgets.py"

new_header ==
    << <<"diff --git a/", WidgetsPath, " b/", WidgetsPath>> \o NL,
       <<"-", "-", "-", " ", "a/", WidgetsPath>> \o NL,
       <<"+", "+", "+", " ", "b/", WidgetsPath>> \o NL >>

\* new_header + lines[2:]
ModifiedHeader(ls) == new_header \o Drop(ls, 2)

\* every error of the read or of the write is caught and answered with False
ModifyPatchFile ==
    /\ pc = "modify"
    /\ \/ /\ patch_file.exists
          /\ modify_lines' = ReadLines(patch_file.content)
          /\ \/ /\ patch_file' = File(Flatten(ModifiedHeader(modify_lines')))
                /\ modify_result' = "True"
             \/ /\ \E n \in 0..Len(ModifiedHeader(modify_lines')) :
                      patch_file' = File(Flatten(SubSeq(ModifiedHeader(modify_lines'), 1, n)))
                /\ modify_result' = "False"
             \/ /\ UNCHANGED patch_file
                /\ modify_result' = "False"
       \/ /\ modify_result' = "False"
          /\ UNCHANGED <<modify_lines, patch_file>>
    /\ pc' = "modify_done"
    /\ UNCHANGED <<strip_vars, responses, original_file, original_text,
                   code_generator_output, code_block, cleaned_code, output_py,
                   debug_file, diff_result, jsonl_file>>

\* -------------------------------------------------------- save_patch_to_jsonl
InstanceId == "django__django-15061"

ModelName == "gemini-2.5-pro"

\* json.dumps of a text: the quote and the line terminator are escaped
RECURSIVE JsonEscape(_)
JsonEscape(text) ==
    IF text = <<>> THEN <<>>
    ELSE (IF Head(text) = DQ THEN <<"\\", DQ>>
          ELSE IF Head(text) = "\n" THEN <<"\\", "n">>
          ELSE IF Head(text) = "\t" THEN <<"\\", "t">>
          ELSE IF Head(text) = "\\" THEN <<"\\", "\\">>
          ELSE <<Head(text)>>) \o JsonEscape(Tail(text))

JsonString(text) == <<DQ>> \o JsonEscape(text) \o <<DQ>>

JsonlRecord_Stripped(instance_id, model_name, patch_content) ==
    <<"{">> \o JsonString(<<"instance_id">>) \o <<":", " ">> \o JsonString(<<instance_id>>)
    \o <<",", " ">> \o JsonString(<<"model_name_or_path">>) \o <<":", " ">> \o JsonString(<<model_name>>)
    \o <<",", " ">> \o JsonString(<<"model_patch">>) \o <<":", " ">> \o JsonString(Strip(patch_content))
    \o <<"}">> \o NL

\* json.dump(patch_data, f) followed by f.write("\n")
JsonlRecord(instance_id, model_name, patch_content) ==
    <<"{">> \o JsonString(<<"instance_id">>) \o <<":", " ">> \o JsonString(<<instance_id>>)
    \o <<",", " ">> \o JsonString(<<"model_name_or_path">>) \o <<":", " ">> \o JsonString(<<model_name>>)
    \o <<",", " ">> \o JsonString(<<"model_patch">>) \o <<":", " ">> \o JsonString(patch_content)
    \o <<"}">> \o NL

\* a missing patch file ends the function, any other read error leaves it as
\* an exception; an error of the write is caught and only printed
SavePatchToJsonl ==
    /\ pc = "save_jsonl"
    /\ \/ /\ patch_file.exists
          /\ \/ jsonl_file' = File(JsonlRecord(InstanceId, ModelName, patch_file.content))
             \/ jsonl_file' = File(<<>>)
          /\ pc' = "finished"
       \/ /\ ~patch_file.exists
          /\ pc' = "finished"
          /\ UNCHANGED jsonl_file
       \/ /\ patch_file.exists
          /\ pc' = "jsonl_raised"
          /\ UNCHANGED jsonl_file
    /\ UNCHANGED <<patch_file, strip_vars, responses, original_file, original_text,
                   code_generator_output, code_block, cleaned_code, output_py,
                   debug_file, diff_result, modify_lines, modify_result>>

\* ------------------------------------------------------------------------ main
RepoDir == <<"repo/">>

OutputPyPath == <<"results/output.py">>

\* line 392
ExtractOutput ==
    /\ pc = "extract_output"
    /\ IF ExtractCodeGeneratorOutput(responses).raised
       THEN pc' = "crashed" /\ UNCHANGED code_generator_output
       ELSE /\ pc' = "extract_code"
            /\ code_generator_output' = ExtractCodeGeneratorOutput(responses).output
    /\ UNCHANGED <<patch_file, strip_vars, responses, original_file, original_text,
                   code_block, cleaned_code, output_py, debug_file, diff_result,
                   modify_lines, modify_result, jsonl_file>>

\* lines 394-403: an empty code block saves the responses and exits with 1
ExtractCode ==
    /\ pc = "extract_code"
    /\ code_block' = ExtractCodeFromOutput(code_generator_output)
    /\ IF code_block' = <<>>
       THEN \/ pc' = "exit_1" /\ debug_file' = File(responses)
            \/ pc' = "crashed" /\ debug_file' = File(<<>>)
       ELSE pc' = "clean_write" /\ UNCHANGED debug_file
    /\ UNCHANGED <<patch_file, strip_vars, responses, original_file, original_text,
                   code_generator_output, cleaned_code, output_py, diff_result,
                   modify_lines, modify_result, jsonl_file>>

\* lines 405-425: the write of output.py is tried twice before exit(1)
CleanAndWrite ==
    /\ pc = "clean_write"
    /\ cleaned_code' = CleanCodeOutput(code_block)
    /\ \/ pc' = "generate_diff" /\ output_py' = File(cleaned_code')
       \/ pc' = "exit_1" /\ output_py' = File(<<>>)
    /\ UNCHANGED <<patch_file, strip_vars, responses, original_file, original_text,
                   code_generator_output, code_block, debug_file, diff_result,
                   modify_lines, modify_result, jsonl_file>>

\* lines 428, 448-467: any error of the reads or of the write is an exception
GenerateDiffPatch ==
    /\ pc = "generate_diff"
    /\ LET diff == UnifiedDiff(ReadLines(original_text), ReadLines(output_py.content),
                               RepoDir \o original_file, OutputPyPath)
       IN  \/ /\ patch_file' = File(Flatten(diff))
              /\ diff_result' = "Ok"
              /\ pc' = "strip_read"
           \/ /\ \E n \in 0..Len(diff) : patch_file' = File(Flatten(SubSeq(diff, 1, n)))
              /\ diff_result' = "Raised"
              /\ pc' = "diff_raised"
           \/ /\ UNCHANGED patch_file
              /\ diff_result' = "Raised"
              /\ pc' = "diff_raised"
    /\ UNCHANGED <<strip_vars, responses, original_file, original_text,
                   code_generator_output, code_block, cleaned_code, output_py,
                   debug_file, modify_lines, modify_result, jsonl_file>>

AfterStrip_Ignore(result) == "modify"

\* lines 430, 441-442
AfterStrip(result) == IF result = "True" THEN "modify" ELSE "finished"

AfterModify_Ignore(result) == "save_jsonl"

\* lines 431, 437-440
AfterModify(result) == IF result = "True" THEN "save_jsonl" ELSE "finished"

MainAfterStrip ==
    /\ pc = "strip_done"
    /\ pc' = AfterStrip(strip_result)
    /\ UNCHANGED <<patch_file, strip_vars, main_vars>>

MainAfterModify ==
    /\ pc = "modify_done"
    /\ pc' = AfterModify(modify_result)
    /\ UNCHANGED <<patch_file, strip_vars, main_vars>>

\* lines 444-445: the exception of any stage ends the try block
MainExcept ==
    /\ pc \in {"diff_raised", "strip_raised", "jsonl_raised"}
    /\ pc' = "finished"
    /\ UNCHANGED <<patch_file, strip_vars, main_vars>>

\* ---------------------------------------------------------------- run inputs
FixedCode == <<"def", " ", "f():">> \o NL \o IND \o <<"return 2">> \o NL

FixedCodeDoc == <<"def", " ", "f():">> \o NL \o IND \o Q3 \o <<"doc">> \o Q3 \o NL
                \o IND \o <<"return 2">> \o NL

BlobPythonFence == <<"Here is the fix:">> \o NL \o FencePython \o NL \o FixedCodeDoc \o Fence \o NL
BlobPlainFence  == Fence \o NL \o FixedCode \o Fence
BlobBothFences  == Fence \o NL \o FixedCode \o Fence \o NL \o FencePython \o NL \o FixedCodeDoc \o Fence
BlobRaw         == FixedCode
BlobProse       == <<"Here is the fix:", " ", "return 2">>
BlobOpenFence   == FencePython \o NL \o FixedCode
BlobTwoOpeners  == Fence \o <<" ">> \o FencePython \o <<" ">> \o FixedCode
BlobTwoClosers  == FixedCode \o Fence \o <<" ">> \o Fence
BlobEmptyFence  == FencePython \o NL \o Fence
BlobBlank       == <<" ">>

Blobs == {BlobPythonFence, BlobPlainFence, BlobBothFences, BlobRaw, BlobProse,
          BlobOpenFence, BlobTwoOpeners, BlobTwoClosers, BlobEmptyFence, BlobBlank}

AnalysisPlain == <<"The bug is in f.">>
AnalysisQuoting == <<"Hand over to", " ", "[code_generator_agent]", ":">> \o NL \o <<"fix f.">>
AnalysisQuotingCode == <<"Expected from", " ", "[code_generator_agent]", ":", " ">> \o FixedCode

ResponseSet == {Response(GeneratorTag, b) : b \in Blobs}
               \cup {Response(AnalyserTag, t) :
                         t \in {AnalysisPlain, AnalysisQuoting, AnalysisQuotingCode}}

OriginalCode == <<"def", " ", "f():">> \o NL \o IND \o <<"return 1">> \o NL
OriginalCodeNoEol == <<"def", " ", "f():">> \o NL \o IND \o <<"return 1">>

Originals == {OriginalCode, OriginalCodeNoEol}

OriginalFiles == {<<WidgetsPath>>, <<"pkg/mod.py">>}

\* the state of main when run_agent has returned (line 390)
Init ==
    /\ pc = "extract_output"
    /\ responses \in SeqsUpTo(ResponseSet, MaxResponses)
    /\ original_file \in OriginalFiles
    /\ original_text \in Originals
    /\ code_generator_output = <<>>
    /\ code_block = <<>>
    /\ cleaned_code = <<>>
    /\ output_py = NoFile
    /\ debug_file = NoFile
    /\ diff_result = "None"
    /\ modify_lines = <<>>
    /\ modify_result = "None"
    /\ jsonl_file = NoFile
    /\ patch_file = NoFile
    /\ lines = <<>>
    /\ idx = 1
    /\ modified_lines = <<>>
    /\ in_multiline_docstring = FALSE
    /\ docstring_quotes = None
    /\ scan_log = <<>>
    /\ strip_result = "None"
    /\ strip_pass = 1

Next ==
    \/ ExtractOutput
    \/ ExtractCode
    \/ CleanAndWrite
    \/ GenerateDiffPatch
    \/ StripRead
    \/ StripLoop
    \/ StripWrite
    \/ MainAfterStrip
    \/ ModifyPatchFile
    \/ MainAfterModify
    \/ SavePatchToJsonl
    \/ MainExcept

Spec == Init /\ [][Next]_vars

\* =================================================================== claims
\* vocabulary of the claims, independent of the operators of the stripper
StartsPlus(l) == l # <<>> /\ l[1] = "+"

NonPlus(s) == SelectSeq(s, LAMBDA l : ~StartsPlus(l))

Trimmed(l) == LStrip(Tail(l))

StartsWithDelim(l) == StartsWith(Trimmed(l), Q3) \/ StartsWith(Trimmed(l), S3)

IsStructural(l) ==
    \/ StartsWith(l, <<"-", "-", "-">>)
    \/ StartsWith(l, <<"+", "+", "+">>)
    \/ StartsWith(l, <<"@", "@">>)

Structural(s) == SelectSeq(s, IsStructural)

Logged == DOMAIN scan_log

\* the scan state after the k-th line was processed
InAfter(k) == IF k < Len(scan_log) THEN scan_log[k + 1].in_before
                                   ELSE in_multiline_docstring

QuotesAfter(k) == IF k < Len(scan_log) THEN scan_log[k + 1].quotes_before
                                       ELSE docstring_quotes

StripSucceeded == pc = "strip_done" /\ strip_result = "True"

\* C1: the lines not starting with '+' are the same, in content and order,
\* in the output as in the input, and every removed line starts with '+'.
C1_NonAdditionLinesPreserved ==
    /\ pc = "strip_loop" =>
         NonPlus(modified_lines) = NonPlus(SubSeq(lines, 1, idx - 1))
    /\ \A k \in Logged : ~scan_log[k].keep => StartsPlus(lines[k])
    /\ StripSucceeded =>
         /\ NonPlus(ReadLines(patch_file.content)) = NonPlus(lines)
         /\ Len(lines) - Len(ReadLines(patch_file.content))
              = Cardinality({k \in Logged : ~scan_log[k].keep})

C1_Witness ==
    /\ StripSucceeded
    /\ Len(ReadLines(patch_file.content)) < Len(lines)
    /\ \E k \in 1..Len(lines) : ~StartsPlus(lines[k]) /\ Contains(lines[k], Q3)

\* C2: every structural line of the input ('---', '+++', '@@') is present in
\* the output, whatever the scan state when it is reached.
C2_StructuralLinesKept ==
    StripSucceeded => Structural(ReadLines(patch_file.content)) = Structural(lines)

\* C3: OUTSIDE, an addition whose trimmed text starts with a delimiter d that
\* does not reappear on the line is dropped and the state becomes INSIDE(d);
\* INSIDE(d), every addition is dropped and the state returns to OUTSIDE
\* exactly on an addition containing d; the three additions '+    """',
\* '+    Multi-line.', '+    """' read from OUTSIDE are all dropped and the
\* state is OUTSIDE after the third.
C3_MultiLineDocstringRemoved ==
    /\ \A k \in Logged : \A d \in {Q3, S3} :
         ( /\ ~scan_log[k].in_before
           /\ StartsPlus(lines[k])
           /\ StartsWith(Trimmed(lines[k]), d)
           /\ ~Contains(Drop(Trimmed(lines[k]), 3), d) )
         => ~scan_log[k].keep /\ InAfter(k) /\ QuotesAfter(k) = d
    /\ \A k \in Logged :
         (scan_log[k].in_before /\ StartsPlus(lines[k]))
         => /\ ~scan_log[k].keep
            /\ InAfter(k) = ~Contains(Tail(lines[k]), scan_log[k].quotes_before)
            /\ InAfter(k) => QuotesAfter(k) = scan_log[k].quotes_before
    /\ \A k \in Logged :
         ( /\ k + 2 \in Logged
           /\ ~scan_log[k].in_before
           /\ SubSeq(lines, k, k + 2) = <<AddOpenDQ, AddText, AddOpenDQ>> )
         => /\ \A j \in k..(k + 2) : ~scan_log[j].keep
            /\ InAfter(k) /\ InAfter(k + 1) /\ ~InAfter(k + 2)

C3_Witness ==
    /\ pc = "strip_loop"
    /\ idx = 4
    /\ lines = <<AddOpenSQ, AddOpenDQ, AddOpenSQ>>
    /\ modified_lines = <<>>
    /\ scan_log[3].in_before /\ scan_log[3].quotes_before = S3
    /\ ~in_multiline_docstring

C3_ExampleWitness ==
    /\ pc = "strip_loop"
    /\ idx = 4
    /\ lines = <<AddOpenDQ, AddText, AddOpenDQ>>
    /\ modified_lines = <<>>
    /\ ~in_multiline_docstring

\* C4: OUTSIDE, an addition whose trimmed text opens and closes the same
\* delimiter on the one line (at least 6 characters, with or without the
\* line terminator) is dropped and the state stays OUTSIDE, so an ordinary
\* addition that follows is kept.
WithoutTerminator(t) == IF EndsWith(t, NL) THEN SubSeq(t, 1, Len(t) - 1) ELSE t

IsSingleLineDocstring(l) ==
    \E d \in {Q3, S3} :
        LET t == WithoutTerminator(Trimmed(l))
        IN  StartsWith(t, d) /\ EndsWith(t, d) /\ StrLen(t) >= 6

C4_SingleLineDocstringRemoved ==
    \A k \in Logged :
        (~scan_log[k].in_before /\ StartsPlus(lines[k]) /\ IsSingleLineDocstring(lines[k]))
        => /\ ~scan_log[k].keep
           /\ ~InAfter(k) /\ QuotesAfter(k) = None
           /\ (k + 1 \in Logged /\ StartsPlus(lines[k + 1]) /\ ~StartsWithDelim(lines[k + 1]))
                => scan_log[k + 1].keep

C4_Witness ==
    \E k \in Logged :
        /\ lines[k] = AddSingleDQNL
        /\ ~scan_log[k].in_before /\ ~scan_log[k].keep
        /\ k + 1 \in Logged
        /\ lines[k + 1] = AddText
        /\ scan_log[k + 1].keep

\* C5: OUTSIDE, an addition whose trimmed text does not start with a
\* triple-quote delimiter is kept and the state stays OUTSIDE; a line is
\* dropped in state OUTSIDE only if its trimmed text starts with one.
C5_NoFalsePositive ==
    \A k \in Logged :
        ~scan_log[k].in_before =>
            /\ (StartsPlus(lines[k]) /\ ~StartsWithDelim(lines[k]))
                 => scan_log[k].keep /\ ~InAfter(k) /\ QuotesAfter(k) = None
            /\ ~scan_log[k].keep => StartsPlus(lines[k]) /\ StartsWithDelim(lines[k])

C5_Witness ==
    \E k \in Logged :
        /\ lines[k] = AddLiteral
        /\ ~scan_log[k].in_before
        /\ scan_log[k].keep
        /\ ~InAfter(k)

\* C6: before the first line and after every line, docstring_quotes is one of
\* the two delimiters if and only if in_multiline_docstring is true; the scan
\* starts with in_multiline_docstring false and no delimiter.
C6_ScanStateInvariant ==
    /\ docstring_quotes \in {None, Q3, S3}
    /\ in_multiline_docstring <=> docstring_quotes \in {Q3, S3}
    /\ (pc = "strip_loop" /\ idx = 1) => ~in_multiline_docstring /\ docstring_quotes = None
    /\ \A k \in Logged : scan_log[k].in_before <=> scan_log[k].quotes_before \in {Q3, S3}

C6_Witness ==
    /\ pc = "strip_loop"
    /\ \E k \in Logged : scan_log[k].in_before /\ scan_log[k].quotes_before = Q3
    /\ ~in_multiline_docstring
    /\ docstring_quotes = None

\* the three header lines for a repo-relative path P
CanonicalHeader(P) ==
    << <<"diff --git a/">> \o P \o <<" b/">> \o P \o NL,
       <<"-", "-", "-", " ", "a/">> \o P \o NL,
       <<"+", "+", "+", " ", "b/">> \o P \o NL >>

\* C7: for a diff of at least two lines and the caller's target path P, the
\* canonicalizer's output is 'diff --git a/P b/P', '--- a/P', '+++ b/P'
\* followed by the input's lines from index 2 on, one line more than the input.
C7_HeaderCanonicalizedForTarget ==
    (pc = "modify_done" /\ modify_result = "True" /\ Len(modify_lines) >= 2)
    => /\ ReadLines(patch_file.content)
            = CanonicalHeader(original_file) \o SubSeq(modify_lines, 3, Len(modify_lines))
       /\ Len(ReadLines(patch_file.content)) = Len(modify_lines) + 1

PythonFenced(output) == SearchFenced(output, <<BT, BT, BT, "python", "\n">>)

PlainFenced(output) == SearchFenced(output, <<BT, BT, BT, "\n">>)

CodeStart(output) ==
    \E w \in {<<"class">>, <<"def">>, <<"import">>, Q3} : StartsWith(Strip(output), w)

Extracted == pc \notin {"extract_output", "extract_code", "crashed"} \/ debug_file.exists

\* C8: extraction takes the python-tagged fenced block, else the untagged
\* fenced block, else the blob itself when its trimmed text starts with
\* 'class', 'def', 'import' or a triple double quote; when none of the three
\* matches it fails and the run aborts before any diff is produced.
C8_ExtractionOrderOrFailure ==
    Extracted =>
        IF PythonFenced(code_generator_output).found
        THEN code_block = PythonFenced(code_generator_output).group
        ELSE IF PlainFenced(code_generator_output).found
        THEN code_block = PlainFenced(code_generator_output).group
        ELSE IF CodeStart(code_generator_output)
        THEN code_block = code_generator_output
        ELSE /\ pc \in {"exit_1", "crashed"}
             /\ ~output_py.exists /\ ~patch_file.exists /\ ~jsonl_file.exists

\* C9: clean_code_output is idempotent: cleaning the cleaned text changes
\* nothing, the cleaned text neither starts nor ends with a fence marker.
C9_CleanIdempotent ==
    output_py.exists =>
        /\ CleanCodeOutput(cleaned_code) = cleaned_code
        /\ ~StartsWith(cleaned_code, Fence)
        /\ ~EndsWith(cleaned_code, Fence)

StripStarted == pc \in {"strip_read", "strip_loop", "strip_done", "strip_raised"}
                \/ strip_result # "None" \/ scan_log # <<>>

ModifyStarted == pc \in {"modify", "modify_done"} \/ modify_result # "None"
                 \/ modify_lines # <<>>

PackagingStarted == pc \in {"save_jsonl", "jsonl_raised"} \/ jsonl_file.exists

\* C10: the stages run in the order diff synthesis, stripping, header
\* canonicalization, packaging; each starts only after the stages before it
\* succeeded, and the JSONL record exists only in runs where all three did.
C10_StageOrderAndGating ==
    /\ StripStarted => diff_result = "Ok"
    /\ ModifyStarted => diff_result = "Ok" /\ strip_result = "True"
    /\ PackagingStarted =>
           diff_result = "Ok" /\ strip_result = "True" /\ modify_result = "True"
    /\ pc = "finished" =>
           (jsonl_file.exists =>
                diff_result = "Ok" /\ strip_result = "True" /\ modify_result = "True")

C10_Witness ==
    /\ pc = "finished"
    /\ diff_result = "Ok"
    /\ strip_result = "False"
    /\ modify_result = "None"
    /\ ~jsonl_file.exists

C10_CompleteRun ==
    /\ pc = "finished"
    /\ diff_result = "Ok" /\ strip_result = "True" /\ modify_result = "True"
    /\ jsonl_file.exists /\ jsonl_file.content # <<>>

\* the text modify_patch_file sets out to write over a patch of these lines
CanonicalText(prior) == Flatten(new_header \o Drop(ReadLines(prior), 2))

\* C11: when the write of the patch file fails during stripping or during
\* canonicalization, the operation answers False and the patch file holds
\* either the complete new text or exactly the text it held before the call;
\* a truncated or partly written patch file is never left behind.
C11_WriteAtomic ==
    /\ (pc = "strip_done" /\ strip_result = "False" /\ patch_file.exists) =>
         patch_file.content \in {Flatten(modified_lines), Flatten(lines)}
    /\ (pc = "modify_done" /\ modify_result = "False" /\ patch_file.exists) =>
         patch_file.content \in {CanonicalText(Flatten(modified_lines)),
                                 Flatten(modified_lines)}

\* C11, the part the code keeps: a write that did not run to its end is
\* answered with False, never with True.
C11_FailureReported ==
    /\ (pc = "strip_done" /\ patch_file.exists
          /\ patch_file.content # Flatten(modified_lines)) => strip_result = "False"
    /\ (pc = "modify_done"
          /\ patch_file.content # CanonicalText(Flatten(modified_lines))) =>
         modify_result = "False"

\* a patch cut short by the failing write of the stripper
C11_TruncatedByStrip ==
    /\ pc = "strip_done"
    /\ strip_result = "False"
    /\ patch_file.exists
    /\ patch_file.content \notin {Flatten(modified_lines), Flatten(lines)}

\* a patch cut short by the failing write of the canonicalization
C11_TruncatedByModify ==
    /\ pc = "modify_done"
    /\ modify_result = "False"
    /\ patch_file.content \notin {CanonicalText(Flatten(modified_lines)),
                                  Flatten(modified_lines)}

\* the JSON text before and after the value of "model_patch" in a record
RecordHead ==
    <<"{", DQ, "instance_id", DQ, ":", " ", DQ, "django__django-15061", DQ, ",", " ",
      DQ, "model_name_or_path", DQ, ":", " ", DQ, "gemini-2.5-pro", DQ, ",", " ",
      DQ, "model_patch", DQ, ":", " ", DQ>>

RecordTail == <<DQ, "}", "\n">>

\* the text a JSON string literal stands for
RECURSIVE JsonUnescape(_)
JsonUnescape(t) ==
    IF t = <<>> THEN <<>>
    ELSE IF Head(t) = "\\" /\ Len(t) >= 2
         THEN <<(IF t[2] = "n" THEN "\n" ELSE IF t[2] = "t" THEN "\t" ELSE t[2])>>
              \o JsonUnescape(Drop(t, 2))
         ELSE <<Head(t)>> \o JsonUnescape(Tail(t))

WellFormedRecord(record) ==
    /\ StartsWith(record, RecordHead)
    /\ EndsWith(record, RecordTail)
    /\ Len(record) >= Len(RecordHead) + Len(RecordTail)

PatchText(record) ==
    JsonUnescape(SubSeq(record, Len(RecordHead) + 1, Len(record) - Len(RecordTail)))

Deletions(ls) ==
    SelectSeq(ls, LAMBDA l : StartsWith(l, <<"-">>) /\ ~StartsWith(l, <<"-", "-", "-">>))

Additions(ls) ==
    SelectSeq(ls, LAMBDA l : StartsWith(l, <<"+">>) /\ ~StartsWith(l, <<"+", "+", "+">>))

ExampleOriginal == <<"def", " ", "f():", "\n", " ", " ", " ", " ", "return 1", "\n">>

ExampleInterior ==
    <<"def", " ", "f():", "\n", " ", " ", " ", " ", DQ, DQ, DQ, "doc", DQ, DQ, DQ, "\n",
      " ", " ", " ", " ", "return 2", "\n">>

ExampleFenced == <<BT, BT, BT, "python", "\n">> \o ExampleInterior \o <<BT, BT, BT>>

MinusReturn1 == <<"-", " ", " ", " ", " ", "return 1", "\n">>

PlusReturn2 == <<"+", " ", " ", " ", " ", "return 2", "\n">>

PlusDoc == <<"+", " ", " ", " ", " ", DQ, DQ, DQ, "doc", DQ, DQ, DQ, "\n">>

ExampleRun ==
    /\ original_text = ExampleOriginal
    /\ Contains(code_generator_output, ExampleFenced)

\* C12: for the original 'def f():\n    return 1\n' and a generator blob whose
\* python-fenced block holds 'def f():\n    """doc"""\n    return 2\n', the
\* extracted code is the fenced interior; the raw diff has the one deletion
\* '-    return 1' and the two additions '+    """doc"""' and '+    return 2';
\* and the patch text of the packaged record is exactly the content of the
\* patch file after stripping and canonicalization: it holds '-    return 1'
\* and '+    return 2', not the docstring addition, and the packager has not
\* altered it.
C12_EndToEnd ==
    ExampleRun =>
      /\ Extracted => code_block = ExampleInterior
      /\ pc = "strip_read" =>
           /\ Deletions(ReadLines(patch_file.content)) = <<MinusReturn1>>
           /\ Additions(ReadLines(patch_file.content)) = <<PlusDoc, PlusReturn2>>
      /\ (pc = "finished" /\ jsonl_file.exists /\ jsonl_file.content # <<>>) =>
           /\ WellFormedRecord(jsonl_file.content)
           /\ PatchText(jsonl_file.content) = patch_file.content
           /\ patch_file.content = CanonicalText(Flatten(modified_lines))
           /\ Contains(PatchText(jsonl_file.content), MinusReturn1)
           /\ Contains(PatchText(jsonl_file.content), PlusReturn2)
           /\ ~Contains(PatchText(jsonl_file.content), PlusDoc)

C12_Witness ==
    /\ ExampleRun
    /\ pc = "finished"
    /\ jsonl_file.exists
    /\ WellFormedRecord(jsonl_file.content)
    /\ Len(lines) = 7
    /\ Len(modified_lines) = 6

\* an addition line whose text holds the delimiter d
ClosesWith(l, d) == StartsPlus(l) /\ Contains(Tail(l), d)

\* C13: a line that is not an addition is kept and leaves the scan state as
\* it was, also when it holds the active delimiter; so from a line read
\* INSIDE(d) on, as long as no addition holding d has been read, the state is
\* INSIDE(d) at every later line, across context lines, deletions and hunk
\* markers, and every addition read there is dropped, the state returning to
\* OUTSIDE only with the first addition that holds d (never, when there is
\* none).
C13_NonAdditionsLeaveScanState ==
    /\ \A k \in Logged :
         ~StartsPlus(lines[k]) =>
           /\ scan_log[k].keep
           /\ InAfter(k) = scan_log[k].in_before
           /\ QuotesAfter(k) = scan_log[k].quotes_before
    /\ \A j \in Logged : \A k \in Logged : \A d \in {Q3, S3} :
         ( /\ j < k
           /\ scan_log[j].in_before
           /\ scan_log[j].quotes_before = d
           /\ \A i \in j..(k - 1) : ~ClosesWith(lines[i], d) )
         => /\ scan_log[k].in_before
            /\ scan_log[k].quotes_before = d
            /\ StartsPlus(lines[k]) =>
                 /\ ~scan_log[k].keep
                 /\ InAfter(k) = ~ClosesWith(lines[k], d)

\* the closing delimiter came on a context line: the addition after it is
\* still dropped and the docstring is still open at the end of the patch
C13_Witness ==
    /\ pc = "strip_done"
    /\ Len(scan_log) = 3
    /\ scan_log[2].in_before
    /\ ~StartsPlus(lines[2])
    /\ Contains(lines[2], scan_log[2].quotes_before)
    /\ StartsPlus(lines[3])
    /\ ~scan_log[3].keep
    /\ in_multiline_docstring

\* the docstring stays open across a hunk marker
C13_HunkWitness ==
    /\ pc = "strip_done"
    /\ Len(scan_log) = 3
    /\ scan_log[2].in_before
    /\ StartsWith(lines[2], <<"@", "@">>)
    /\ scan_log[3].in_before
    /\ StartsPlus(lines[3])
    /\ ~scan_log[3].keep

RepeatedPass == strip_pass >= 2 /\ pc \in {"strip_loop", "strip_done"}

\* C14: the stripper is idempotent. No addition kept by a pass has a
\* left-trimmed text that starts with a triple-quote delimiter; so a pass
\* over the output of an earlier pass is OUTSIDE at every line, drops no
\* line, and writes back exactly the text it read.
C14_StripIdempotent ==
    /\ \A k \in Logged :
         (StartsPlus(lines[k]) /\ scan_log[k].keep) => ~StartsWithDelim(lines[k])
    /\ (RepeatedPass /\ strip_result # "False") =>
         /\ ~in_multiline_docstring
         /\ \A k \in Logged : scan_log[k].keep /\ ~scan_log[k].in_before
         /\ modified_lines = SubSeq(lines, 1, idx - 1)
    /\ (RepeatedPass /\ StripSucceeded) => patch_file.content = Flatten(lines)

\* a second pass has run to its end over a patch in which the first pass
\* had kept an addition that holds a delimiter inside its text
C14_Witness ==
    /\ strip_pass = 2
    /\ StripSucceeded
    /\ \E k \in 1..Len(lines) :
         /\ StartsPlus(lines[k])
         /\ ~IsStructural(lines[k])
         /\ Contains(lines[k], Q3)

\* a response whose author is code_generator_agent
FromGenerator(response) == StartsWith(response, <<"[code_generator_agent]", ":", " ">>)

NoGeneratorResponse == \A n \in DOMAIN responses : ~FromGenerator(responses[n])

NoUsableOutput == NoGeneratorResponse \/ (Extracted /\ code_block = <<>>)

Aborted == pc \in {"exit_1", "crashed"}

NoLaterStage ==
    /\ pc \in {"extract_output", "extract_code", "exit_1", "crashed"}
    /\ ~output_py.exists
    /\ ~patch_file.exists
    /\ ~jsonl_file.exists

\* C15: when the generator produced no usable output (no response of
\* code_generator_agent, or an empty extracted code), the run aborts with a
\* failure exit after it has saved the raw responses for debugging, and no
\* later stage runs: no fixed source, no patch file, no JSONL record. The
\* save is asked of every abort as an attempt (the debug file was opened) and
\* of every exit(1) as the whole list of responses.
C15_AbortOnNoUsableOutput ==
    NoUsableOutput =>
      /\ NoLaterStage
      /\ Aborted => debug_file.exists
      /\ pc = "exit_1" => debug_file = File(responses)

\* C15, the part the code keeps: an empty extracted code ends the run at
\* lines 396-403 with the responses saved and nothing else written.
C15_EmptyCodeAborts ==
    (Extracted /\ code_block = <<>>) =>
      /\ NoLaterStage
      /\ Aborted
      /\ debug_file.exists
      /\ pc = "exit_1" => debug_file = File(responses)

\* no response of the generator, and the run ends in an exception with no
\* response saved
C15_CrashedUnsaved ==
    /\ NoGeneratorResponse
    /\ pc = "crashed"
    /\ ~debug_file.exists

\* no response of the generator, and the run goes on to package a patch
C15_RanOnWithoutGenerator ==
    /\ NoGeneratorResponse
    /\ pc = "finished"
    /\ jsonl_file.exists

====
